---- MODULE Spec2Model ----
(***************************************************************************)
(* Smart energy analytics session (powerconsumption.py): the frame built   *)
(* by load_and_preprocess, the session state kept by the main menu loop    *)
(* (df, mean_load, std_load, high_risk_hours) and the eight menu           *)
(* operations.                                                             *)
(*                                                                         *)
(* Numbers.  Loads are naturals.  A float the program derives from them is *)
(* kept exactly: a rational [num, den] in lowest terms, den = 0 standing   *)
(* for NaN (num = 0) or +/-inf (num = +/-1).  A standard deviation or a    *)
(* z-score is a signed square root of a rational, [sgn, sq], so that every *)
(* comparison the program makes is decided exactly.                        *)
(***************************************************************************)
EXTENDS Integers, Sequences, FiniteSets, TLC

VARIABLES
    csv,              \* rows of powerconsumption.csv, in file order
    df,               \* the frame: column name -> sequence of values
    mean_load,        \* module-level mean_load (line 181)
    std_load,         \* module-level std_load (line 181)
    high_risk_hours,  \* module-level high_risk_hours (line 182): None or a Series
    pc,               \* "startup", "menu", "exited" or "crashed"
    choice,           \* the text typed at the last prompt
    stdout,           \* what the last step printed
    hist              \* history of the session: what operations 4 and 6 did

vars == <<csv, df, mean_load, std_load, high_risk_hours, pc, choice, stdout, hist>>

(***************************************************************************)
(* Bounds of the input families.                                           *)
(***************************************************************************)
MaxRows == 3      \* rows of a frame of the session specification
MaxLoad == 1      \* largest zone reading of the session specification
LoadRows == 9     \* rows of a frame of the load-profile specification
LoadLevels == 2   \* largest reading of the load-profile and risk specifications
RiskRows == 11    \* rows of a frame of the risk specification
ZoneRows == 2     \* rows of a frame of the zone specification

(***************************************************************************)
(* Exact arithmetic.                                                       *)
(***************************************************************************)
Abs(x) == IF x < 0 THEN -x ELSE x

Sign(x) == IF x < 0 THEN -1 ELSE IF x > 0 THEN 1 ELSE 0

RECURSIVE Gcd(_, _)
Gcd(a, b) == IF b = 0 THEN a ELSE Gcd(b, a % b)

NaN == [num |-> 0, den |-> 0]

IsNaN(r) == r.den = 0 /\ r.num = 0

IsFinite(r) == r.den # 0

\* n / d for integers n, d; d = 0 gives NaN or an infinity, as numpy does.
Rat(n, d) ==
    IF d = 0 THEN [num |-> Sign(n), den |-> 0]
    ELSE LET g == Gcd(Abs(n), Abs(d))
             s == IF d < 0 THEN -1 ELSE 1
         IN  [num |-> s * (n \div g), den |-> s * (d \div g)]

RatInt(n) == [num |-> n, den |-> 1]

RatAdd(a, b) ==
    IF IsFinite(a) /\ IsFinite(b) THEN Rat(a.num * b.den + b.num * a.den, a.den * b.den)
    ELSE IF IsNaN(a) \/ IsNaN(b) THEN NaN
    ELSE IF IsFinite(a) THEN b
    ELSE IF IsFinite(b) THEN a
    ELSE IF a.num = b.num THEN a ELSE NaN

RatNeg(a) == [num |-> -a.num, den |-> a.den]

RatSub(a, b) == RatAdd(a, RatNeg(b))

RatMul(a, b) ==
    IF IsFinite(a) /\ IsFinite(b) THEN Rat(a.num * b.num, a.den * b.den)
    ELSE IF IsNaN(a) \/ IsNaN(b) \/ a.num = 0 \/ b.num = 0 THEN NaN
    ELSE [num |-> Sign(a.num) * Sign(b.num), den |-> 0]

\* a / b in numpy's float arithmetic: x/0 is +/-inf, 0/0 is NaN, no exception.
RatDiv(a, b) ==
    IF IsFinite(a) /\ IsFinite(b) THEN Rat(a.num * b.den, a.den * b.num)
    ELSE IF IsNaN(a) \/ IsNaN(b) THEN NaN
    ELSE IF IsFinite(a) THEN RatInt(0)
    ELSE IF IsFinite(b) THEN [num |-> a.num * (IF b.num < 0 THEN -1 ELSE 1), den |-> 0]
    ELSE NaN

\* a > b; any comparison with NaN is False.
RatGT(a, b) ==
    IF IsNaN(a) \/ IsNaN(b) THEN FALSE
    ELSE IF IsFinite(a) /\ IsFinite(b) THEN a.num * b.den > b.num * a.den
    ELSE IF IsFinite(a) THEN b.num < 0
    ELSE IF IsFinite(b) THEN a.num > 0
    ELSE a.num > b.num

RatSign(a) == Sign(a.num)

\* sgn * sqrt(sq)
Surd(sgn, sq) == [sgn |-> sgn, sq |-> sq]

SurdNaN == Surd(0, NaN)

SurdIsNaN(s) == IsNaN(s.sq)

SurdIsZero(s) == ~IsNaN(s.sq) /\ (s.sgn = 0 \/ (IsFinite(s.sq) /\ s.sq.num = 0))

\* a > c * s for a rational a, a natural c and a surd s >= 0.
GTScaledSurd(a, c, s) ==
    IF IsNaN(a) \/ SurdIsNaN(s) THEN FALSE
    ELSE IF SurdIsZero(s) \/ c = 0 THEN RatGT(a, RatInt(0))
    ELSE RatGT(a, RatInt(0)) /\ RatGT(RatMul(a, a), RatMul(RatInt(c * c), s.sq))

RECURSIVE SeqSum(_)
SeqSum(xs) == IF xs = <<>> THEN 0 ELSE Head(xs) + SeqSum(Tail(xs))

RECURSIVE RatSum(_)
RatSum(rs) == IF rs = <<>> THEN RatInt(0) ELSE RatAdd(Head(rs), RatSum(Tail(rs)))

\* Series.mean() of a series of rationals: NaN for an empty series.
SeriesMean(rs) == IF rs = <<>> THEN NaN ELSE RatDiv(RatSum(rs), RatInt(Len(rs)))

\* The sum of the squared deviations of rs from m.
RECURSIVE SumSqDev(_, _)
SumSqDev(rs, m) ==
    IF rs = <<>> THEN RatInt(0)
    ELSE LET d == RatSub(Head(rs), m)
         IN  RatAdd(RatMul(d, d), SumSqDev(Tail(rs), m))

\* Series.std(): the sample standard deviation (ddof = 1), NaN below two values.
SeriesStd(rs) ==
    IF Len(rs) < 2 THEN SurdNaN
    ELSE LET m == SeriesMean(rs)
             v == RatDiv(SumSqDev(rs, m), RatInt(Len(rs) - 1))
         IN  Surd(RatSign(v), v)

AsRats(xs) == [i \in 1..Len(xs) |-> RatInt(xs[i])]

(***************************************************************************)
(* load_and_preprocess                                                     *)
(***************************************************************************)
\* A timestamp is a number of hours since a Monday, 00:00.
HourOf(t) == t % 24

WeekdayOf(t) == (t \div 24) % 7

RECURSIVE InsertByDateTime(_, _)
InsertByDateTime(s, r) ==
    IF s = <<>> THEN <<r>>
    ELSE IF r.Datetime < Head(s).Datetime THEN <<r>> \o s
    ELSE <<Head(s)>> \o InsertByDateTime(Tail(s), r)

RECURSIVE SortByDateTime(_)
SortByDateTime(rows) ==
    IF rows = <<>> THEN <<>>
    ELSE InsertByDateTime(SortByDateTime(SubSeq(rows, 1, Len(rows) - 1)), rows[Len(rows)])

PeakTypeOf(h) == IF h >= 18 /\ h <= 22 THEN "Peak" ELSE "Off-Peak"

DayTypeOf(w) == IF w < 5 THEN "Weekday" ELSE "Weekend"

load_and_preprocess(rows) ==
    LET s == SortByDateTime(rows)
        I == 1..Len(s)
    IN  [c \in {"DateTime", "PowerConsumption_Zone1", "PowerConsumption_Zone2",
                "PowerConsumption_Zone3", "Hour", "Weekday", "Day_Type",
                "Total_Load", "Peak_Type"} |->
            CASE c = "DateTime" -> [i \in I |-> s[i].Datetime]
              [] c = "PowerConsumption_Zone1" -> [i \in I |-> s[i].PowerConsumption_Zone1]
              [] c = "PowerConsumption_Zone2" -> [i \in I |-> s[i].PowerConsumption_Zone2]
              [] c = "PowerConsumption_Zone3" -> [i \in I |-> s[i].PowerConsumption_Zone3]
              [] c = "Hour" -> [i \in I |-> HourOf(s[i].Datetime)]
              [] c = "Weekday" -> [i \in I |-> WeekdayOf(s[i].Datetime)]
              [] c = "Day_Type" -> [i \in I |-> DayTypeOf(WeekdayOf(s[i].Datetime))]
              [] c = "Total_Load" ->
                    [i \in I |-> s[i].PowerConsumption_Zone1 + s[i].PowerConsumption_Zone2
                                    + s[i].PowerConsumption_Zone3]
              [] c = "Peak_Type" -> [i \in I |-> PeakTypeOf(HourOf(s[i].Datetime))]]

NRows(d) == Len(d["DateTime"])

\* df[name] = values: the column is added, or replaced when it exists.
SetColumn(d, name, values) == (name :> values) @@ d

\* The values of column col in the rows whose column keycol is key.
Where(d, keycol, key, col) ==
    LET idx == SelectSeq([i \in 1..NRows(d) |-> i], LAMBDA i : d[keycol][i] = key)
    IN  [k \in 1..Len(idx) |-> d[col][idx[k]]]

\* df.groupby(keycol)['Total_Load'].mean() over the keys given in sorted order:
\* a key with no row is absent.
GroupMean(d, keycol, keys) ==
    LET present == SelectSeq(keys, LAMBDA k : \E i \in 1..NRows(d) : d[keycol][i] = k)
    IN  [j \in 1..Len(present) |->
            [key |-> present[j],
             mean |-> SeriesMean(AsRats(Where(d, keycol, present[j], "Total_Load")))]]

(***************************************************************************)
(* wastage_detection                                                       *)
(***************************************************************************)
\* a >= c * s.
GEScaledSurd(a, c, s) ==
    IF IsNaN(a) \/ SurdIsNaN(s) THEN FALSE
    ELSE IF SurdIsZero(s) \/ c = 0 THEN ~RatGT(RatInt(0), a)
    ELSE RatGT(a, RatInt(0)) /\ ~RatGT(RatMul(RatInt(c * c), s.sq), RatMul(a, a))

\* Mutant: x >= mean + 2 * std.
ExceedsWastageInclusive(x, mean, std) == GEScaledSurd(RatSub(RatInt(x), mean), 2, std)

\* x > mean + 2 * std
ExceedsWastage(x, mean, std) == GTScaledSurd(RatSub(RatInt(x), mean), 2, std)

CountTrue(flags) == Cardinality({i \in DOMAIN flags : flags[i]})

wastage_detection(d) ==
    LET m == SeriesMean(AsRats(d["Total_Load"]))
        s == SeriesStd(AsRats(d["Total_Load"]))
        flags == [i \in 1..NRows(d) |-> ExceedsWastage(d["Total_Load"][i], m, s)]
    IN  [df |-> SetColumn(d, "Wastage_Anomaly", flags),
         mean_load |-> m,
         std_load |-> s,
         out |-> <<[text |-> "Total Wastage Events:", data |-> CountTrue(flags)]>>]

(***************************************************************************)
(* The reports.                                                            *)
(***************************************************************************)
Line(text, data) == [text |-> text, data |-> data]

Texts(out) == [i \in 1..Len(out) |-> out[i].text]

\* Series.plot(kind='bar') raises on an empty Series (pandas finds no bar to place).
BarPlotRaises(series) == series = <<>>

peak_offpeak_analysis(d) ==
    <<Line("Average Load (Peak vs Off-Peak)", GroupMean(d, "Peak_Type", <<"Off-Peak", "Peak">>))>>

RollingWindowShort == 7

RollingWindowLong == 30

\* Series.rolling(k).mean(): NaN until k values are in the window.
RollingMean(xs, k) ==
    [i \in 1..Len(xs) |-> IF i < k THEN NaN ELSE Rat(SeqSum(SubSeq(xs, i - k + 1, i)), k)]

rolling_trend(d) ==
    SetColumn(SetColumn(d, "Rolling_7", RollingMean(d["Total_Load"], RollingWindowShort)),
              "Rolling_30", RollingMean(d["Total_Load"], RollingWindowLong))

weekday_weekend(d) ==
    LET result == GroupMean(d, "Day_Type", <<"Weekday", "Weekend">>)
    IN  [out |-> <<Line("Weekday vs Weekend Load", result)>>,
         raised |-> BarPlotRaises(result)]

(***************************************************************************)
(* peak_load_risk                                                          *)
(***************************************************************************)
HoursOfDay == [h \in 1..24 |-> h - 1]

Means(series) == [i \in 1..Len(series) |-> series[i].mean]

\* Mutant: hourly >= threshold.
ExceedsThresholdInclusive(v, mean, std) == GEScaledSurd(RatSub(v, mean), 1, std)

\* hourly > threshold, threshold = hourly.mean() + hourly.std()
ExceedsThreshold(v, mean, std) == GTScaledSurd(RatSub(v, mean), 1, std)

\* hourly[hourly > threshold]: the entries kept, in the order of hourly.
FilterAbove(hourly, mean, std) ==
    SelectSeq(hourly, LAMBDA e : ExceedsThreshold(e.mean, mean, std))

peak_load_risk(d) ==
    LET hourly == GroupMean(d, "Hour", HoursOfDay)
        high_risk == FilterAbove(hourly, SeriesMean(Means(hourly)), SeriesStd(Means(hourly)))
    IN  [high_risk |-> high_risk,
         out |-> <<Line("High Risk Peak Hours:", high_risk)>>,
         raised |-> BarPlotRaises(high_risk)]

(***************************************************************************)
(* zone_efficiency                                                         *)
(***************************************************************************)
\* round(x, 2): to the nearest hundredth; NaN stays NaN.  An exact tie goes to the
\* even hundredth here; the float of such a value need not be a tie.
Round2(x) ==
    IF ~IsFinite(x) THEN x
    ELSE LET p == 100 * x.num
             f == p \div x.den
             r == p % x.den
         IN  IF 2 * r < x.den THEN Rat(f, 100)
             ELSE IF 2 * r > x.den THEN Rat(f + 1, 100)
             ELSE IF f % 2 = 0 THEN Rat(f, 100) ELSE Rat(f + 1, 100)

\* Mutant: the scores are taken relative to the smallest zone mean.
MinOf3(a, b, c) ==
    LET ab == IF RatGT(a, b) THEN b ELSE a
    IN  IF RatGT(ab, c) THEN c ELSE ab

\* max(zone_avg.values()): the first of the largest.
MaxOf3(a, b, c) ==
    LET ab == IF RatGT(b, a) THEN b ELSE a
    IN  IF RatGT(c, ab) THEN c ELSE ab

ZoneScore(v, max_load) ==
    Round2(RatSub(RatInt(100), RatMul(RatDiv(v, max_load), RatInt(40))))

zone_efficiency(d) ==
    LET zone_avg == [z \in {"Zone1", "Zone2", "Zone3"} |->
                        SeriesMean(AsRats(d["PowerConsumption_" \o z]))]
        max_load == MaxOf3(zone_avg["Zone1"], zone_avg["Zone2"], zone_avg["Zone3"])
        zones == <<"Zone1", "Zone2", "Zone3">>
    IN  <<Line("Zone Efficiency Scores:", <<>>)>> \o
        [i \in 1..3 |-> Line(zones[i], ZoneScore(zone_avg[zones[i]], max_load))]

(***************************************************************************)
(* statistical_anomaly                                                     *)
(***************************************************************************)
\* (x - mean) / std on a pandas column: no exception, a zero std gives inf or NaN.
ZScore(x, mean, std) ==
    LET a == RatSub(RatInt(x), mean)
    IN  IF IsNaN(a) \/ SurdIsNaN(std) THEN SurdNaN
        ELSE IF SurdIsZero(std)
             THEN (IF RatSign(a) = 0 THEN SurdNaN
                   ELSE Surd(RatSign(a), [num |-> 1, den |-> 0]))
        ELSE Surd(RatSign(a) * std.sgn, RatDiv(RatMul(a, a), std.sq))

\* abs(z) > 2.5
IsStatAnomaly(z) == ~SurdIsNaN(z) /\ RatGT(z.sq, Rat(25, 4))

\* Mutant: the rows flagged as anomalies are dropped from the frame.
statistical_anomaly_dropping(d, mean, std) ==
    LET z == [i \in 1..NRows(d) |-> ZScore(d["Total_Load"][i], mean, std)]
        flags == [i \in 1..NRows(d) |-> IsStatAnomaly(z[i])]
        full == SetColumn(SetColumn(d, "Z_Score", z), "Stat_Anomaly", flags)
        keep == SelectSeq([i \in 1..NRows(d) |-> i], LAMBDA i : ~flags[i])
    IN  [df |-> [c \in DOMAIN full |-> [k \in 1..Len(keep) |-> full[c][keep[k]]]],
         out |-> <<Line("Statistical Anomalies:", CountTrue(flags))>>]

statistical_anomaly(d, mean, std) ==
    LET z == [i \in 1..NRows(d) |-> ZScore(d["Total_Load"][i], mean, std)]
        flags == [i \in 1..NRows(d) |-> IsStatAnomaly(z[i])]
    IN  [df |-> SetColumn(SetColumn(d, "Z_Score", z), "Stat_Anomaly", flags),
         out |-> <<Line("Statistical Anomalies:", CountTrue(flags))>>]

(***************************************************************************)
(* demand_balancing                                                        *)
(***************************************************************************)
PeakFactor == Rat(115, 100)

StaggerLimit == 4

ShiftRule(peak, off_peak) == RatGT(peak, RatMul(off_peak, PeakFactor))

StaggerRule(high_risk) == Len(high_risk) > StaggerLimit

\* Mutant: the second rule is an elif of the first.
demand_balancing_elif(d, high_risk) ==
    LET peak == SeriesMean(AsRats(Where(d, "Peak_Type", "Peak", "Total_Load")))
        off_peak == SeriesMean(AsRats(Where(d, "Peak_Type", "Off-Peak", "Total_Load")))
    IN  <<Line("Demand Balancing Suggestions:", <<>>)>>
        \o (IF ShiftRule(peak, off_peak)
            THEN <<Line("Shift load to off-peak hours", <<>>)>>
            ELSE IF StaggerRule(high_risk)
            THEN <<Line("Stagger usage during peak hours", <<>>)>> ELSE <<>>)

demand_balancing(d, high_risk) ==
    LET peak == SeriesMean(AsRats(Where(d, "Peak_Type", "Peak", "Total_Load")))
        off_peak == SeriesMean(AsRats(Where(d, "Peak_Type", "Off-Peak", "Total_Load")))
    IN  <<Line("Demand Balancing Suggestions:", <<>>)>>
        \o (IF ShiftRule(peak, off_peak)
            THEN <<Line("Shift load to off-peak hours", <<>>)>> ELSE <<>>)
        \o (IF StaggerRule(high_risk)
            THEN <<Line("Stagger usage during peak hours", <<>>)>> ELSE <<>>)

(***************************************************************************)
(* The prompt: choice = int(input(...))                                    *)
(***************************************************************************)
DigitValue == [c \in {"0", "1", "2", "3", "4", "5", "6", "7", "8", "9"} |->
                 CASE c = "0" -> 0 [] c = "1" -> 1 [] c = "2" -> 2 [] c = "3" -> 3
                   [] c = "4" -> 4 [] c = "5" -> 5 [] c = "6" -> 6 [] c = "7" -> 7
                   [] c = "8" -> 8 [] c = "9" -> 9]

RECURSIVE Strip(_)
Strip(s) ==
    IF s = <<>> THEN s
    ELSE IF Head(s) = " " THEN Strip(Tail(s))
    ELSE IF s[Len(s)] = " " THEN Strip(SubSeq(s, 1, Len(s) - 1))
    ELSE s

RECURSIVE DigitsValue(_, _)
DigitsValue(s, acc) ==
    IF s = <<>> THEN acc ELSE DigitsValue(Tail(s), 10 * acc + DigitValue[Head(s)])

\* int(text): surrounding blanks and one sign are accepted; ok = FALSE is ValueError.
ParseInt(text) ==
    LET t == Strip(text)
        signed == t # <<>> /\ Head(t) \in {"+", "-"}
        digits == IF signed THEN Tail(t) ELSE t
        ok == digits # <<>> /\ \A i \in 1..Len(digits) : digits[i] \in DOMAIN DigitValue
    IN  [ok |-> ok,
         val |-> IF ~ok THEN 0
                 ELSE (IF signed /\ Head(t) = "-" THEN -1 ELSE 1) * DigitsValue(digits, 0)]

Inputs ==
    {<<"1">>, <<"2">>, <<"3">>, <<"4">>, <<"5">>, <<"6">>, <<"7">>, <<"8">>,
     <<"9">>, <<"-", "1">>, <<" ", "7">>, <<"x">>, <<>>}

\* The prompt is answered by text that int() turns into k.
Chosen(k) ==
    /\ pc = "menu"
    /\ \E text \in Inputs : /\ ParseInt(text).ok
                            /\ ParseInt(text).val = k
                            /\ choice' = text

Traceback(error) == Line("Traceback (most recent call last):", error)

(***************************************************************************)
(* The session.                                                            *)
(***************************************************************************)
None == [isNone |-> TRUE, items |-> <<>>]

Some(items) == [isNone |-> FALSE, items |-> items]

IsNone(x) == x.isNone

NoStat == [z |-> <<>>, flags |-> <<>>, count |-> 0, mean |-> NaN, std |-> SurdNaN]

NoHist == [risk_done |-> FALSE, stat_runs |-> 0, stat_first |-> NoStat, stat_last |-> NoStat]

\* Lines 180-182.
Startup ==
    /\ pc = "startup"
    /\ LET w == wastage_detection(load_and_preprocess(csv))
       IN  /\ df' = w.df
           /\ mean_load' = w.mean_load
           /\ std_load' = w.std_load
           /\ stdout' = w.out
    /\ high_risk_hours' = None
    /\ pc' = "menu"
    /\ UNCHANGED <<csv, choice, hist>>

\* Lines 197-198.
Choice1 ==
    /\ Chosen(1)
    /\ stdout' = peak_offpeak_analysis(df)
    /\ UNCHANGED <<csv, df, mean_load, std_load, high_risk_hours, pc, hist>>

\* Lines 200-201.
Choice2 ==
    /\ Chosen(2)
    /\ df' = rolling_trend(df)
    /\ stdout' = <<>>
    /\ UNCHANGED <<csv, mean_load, std_load, high_risk_hours, pc, hist>>

\* Lines 203-204.
Choice3 ==
    /\ Chosen(3)
    /\ LET r == weekday_weekend(df)
       IN  /\ stdout' = IF r.raised THEN r.out \o <<Traceback("IndexError")>> ELSE r.out
           /\ pc' = IF r.raised THEN "crashed" ELSE "menu"
    /\ UNCHANGED <<csv, df, mean_load, std_load, high_risk_hours, hist>>

\* Lines 206-207: the assignment happens only when peak_load_risk returns.
Choice4 ==
    /\ Chosen(4)
    /\ LET r == peak_load_risk(df)
       IN  /\ stdout' = IF r.raised THEN r.out \o <<Traceback("IndexError")>> ELSE r.out
           /\ pc' = IF r.raised THEN "crashed" ELSE "menu"
           /\ high_risk_hours' = IF r.raised THEN high_risk_hours ELSE Some(r.high_risk)
           /\ hist' = IF r.raised THEN hist ELSE [hist EXCEPT !.risk_done = TRUE]
    /\ UNCHANGED <<csv, df, mean_load, std_load>>

\* Lines 209-210.
Choice5 ==
    /\ Chosen(5)
    /\ stdout' = zone_efficiency(df)
    /\ UNCHANGED <<csv, df, mean_load, std_load, high_risk_hours, pc, hist>>

\* numpy.std(): the population standard deviation (ddof = 0).
PopulationStd(rs) ==
    IF rs = <<>> THEN SurdNaN
    ELSE LET v == RatDiv(SumSqDev(rs, SeriesMean(rs)), RatInt(Len(rs)))
         IN  Surd(RatSign(v), v)

\* Mutant: operation 6 recomputes the baseline itself, with numpy.std, and keeps it.
Choice6Recomputes ==
    /\ Chosen(6)
    /\ LET m == SeriesMean(AsRats(df["Total_Load"]))
           sd == PopulationStd(AsRats(df["Total_Load"]))
           r == statistical_anomaly(df, m, sd)
           run == [z |-> r.df["Z_Score"], flags |-> r.df["Stat_Anomaly"],
                   count |-> r.out[1].data, mean |-> m, std |-> sd]
       IN  /\ df' = r.df
           /\ stdout' = r.out
           /\ mean_load' = m
           /\ std_load' = sd
           /\ hist' = [hist EXCEPT !.stat_runs = IF @ < 2 THEN @ + 1 ELSE @,
                                   !.stat_first = IF hist.stat_runs = 0 THEN run ELSE @,
                                   !.stat_last = run]
    /\ UNCHANGED <<csv, high_risk_hours, pc>>

\* Lines 212-213.
Choice6 ==
    /\ Chosen(6)
    /\ LET r == statistical_anomaly(df, mean_load, std_load)
           run == [z |-> r.df["Z_Score"], flags |-> r.df["Stat_Anomaly"],
                   count |-> r.out[1].data, mean |-> mean_load, std |-> std_load]
       IN  /\ df' = r.df
           /\ stdout' = r.out
           /\ hist' = [hist EXCEPT !.stat_runs = IF @ < 2 THEN @ + 1 ELSE @,
                                   !.stat_first = IF hist.stat_runs = 0 THEN run ELSE @,
                                   !.stat_last = run]
    /\ UNCHANGED <<csv, mean_load, std_load, high_risk_hours, pc>>

\* Mutant: the guard of line 216 is missing.
HasHighRiskUnchecked(h) == TRUE

\* Line 216: high_risk_hours is not None.
HasHighRisk(h) == ~IsNone(h)

\* Lines 215-219.
Choice7 ==
    /\ Chosen(7)
    /\ stdout' = IF HasHighRisk(high_risk_hours)
                 THEN demand_balancing(df, high_risk_hours.items)
                 ELSE <<Line("Run Peak Load Risk first", <<>>)>>
    /\ UNCHANGED <<csv, df, mean_load, std_load, high_risk_hours, pc, hist>>

\* Lines 221-223.
Choice8 ==
    /\ Chosen(8)
    /\ stdout' = <<Line("Exiting System... Thank You!", <<>>)>>
    /\ pc' = "exited"
    /\ UNCHANGED <<csv, df, mean_load, std_load, high_risk_hours, hist>>

\* Lines 225-226: an integer that is none of 1..8.
ChoiceInvalid ==
    /\ pc = "menu"
    /\ \E text \in Inputs : /\ ParseInt(text).ok
                            /\ ParseInt(text).val \notin 1..8
                            /\ choice' = text
    /\ stdout' = <<Line("Invalid choice. Try again.", <<>>)>>
    /\ UNCHANGED <<csv, df, mean_load, std_load, high_risk_hours, pc, hist>>

\* Line 195: int() raises ValueError; nothing catches it and the program ends.
ChoiceNotInt ==
    /\ pc = "menu"
    /\ \E text \in Inputs : /\ ~ParseInt(text).ok
                            /\ choice' = text
    /\ stdout' = <<Traceback("ValueError")>>
    /\ pc' = "crashed"
    /\ UNCHANGED <<csv, df, mean_load, std_load, high_risk_hours, hist>>

(***************************************************************************)
(* Frames.                                                                 *)
(***************************************************************************)
Row(t, z1, z2, z3) ==
    [Datetime |-> t, PowerConsumption_Zone1 |-> z1,
     PowerConsumption_Zone2 |-> z2, PowerConsumption_Zone3 |-> z3]

Reverse(s) == [i \in 1..Len(s) |-> s[Len(s) + 1 - i]]

InitSession(rows) ==
    /\ csv = rows
    /\ df = <<>>
    /\ mean_load = NaN
    /\ std_load = SurdNaN
    /\ high_risk_hours = None
    /\ pc = "startup"
    /\ choice = <<>>
    /\ stdout = <<>>
    /\ hist = NoHist

\* Readings every step hours from t0 on (three hours in a row across the start of
\* the peak window, or the same two hours in turn), Zone1 drawn freely, in
\* timestamp order or reversed.
Init ==
    \E n \in 1..MaxRows, start \in {<<17, 1>>, <<22, 12>>}, rev \in BOOLEAN :
        \E z1 \in [1..n -> 0..MaxLoad] :
            LET rows == [i \in 1..n |-> Row(start[1] + (i - 1) * start[2], z1[i], 0, 0)]
            IN  InitSession(IF rev THEN Reverse(rows) ELSE rows)

\* A non-decreasing profile of n readings in 0..top: cut[k] readings are below level k.
Profiles(n, top) ==
    {[i \in 1..n |-> Cardinality({k \in 1..top : cut[k] < i})] :
        cut \in {c \in [1..top -> 0..n] : \A k \in 1..top : k = top \/ c[k] <= c[k + 1]}}

\* Hourly readings from midnight on, every multiset of Zone1 loads of up to LoadRows rows.
InitLoad ==
    \E n \in 1..LoadRows :
        \E z1 \in Profiles(n, LoadLevels) :
            InitSession([i \in 1..n |-> Row(i - 1, z1[i], 0, 0)])

\* Hourly readings from midnight on with the load rising, or from noon on with the
\* load rising or falling.
InitRisk ==
    \E n \in 1..RiskRows, shape \in {<<0, FALSE>>, <<12, FALSE>>, <<12, TRUE>>} :
        \E z1 \in Profiles(n, LoadLevels) :
            InitSession([i \in 1..n |->
                Row(shape[1] + i - 1, IF shape[2] THEN z1[n + 1 - i] ELSE z1[i], 0, 0)])

\* Two ranges of readings; in neither does a score fall exactly between two hundredths.
ZoneLevels == {{0, 50, 80, 100}, {8000, 8001, 8002}}

\* Hourly readings, the three zones drawn from one range, Zone3 drifting by 0 or 1 a row.
InitZone ==
    \E n \in 1..ZoneRows, levels \in ZoneLevels, drift \in {0, 1} :
        \E z1 \in levels, z2 \in levels, z3 \in levels :
            InitSession([i \in 1..n |-> Row(i - 1, z1, z2, z3 + drift * (i - 1))])

Next ==
    \/ Startup
    \/ Choice1
    \/ Choice2
    \/ Choice3
    \/ Choice4
    \/ Choice5
    \/ Choice6
    \/ Choice7
    \/ Choice8
    \/ ChoiceInvalid
    \/ ChoiceNotInt

\* The whole session over small frames.
Spec == Init /\ [][Next]_vars

NextLoad ==
    \/ Startup
    \/ Choice2
    \/ Choice6

\* wastage_detection and statistical_anomaly over load profiles.
SpecLoad == InitLoad /\ [][NextLoad]_vars

NextRisk ==
    \/ Startup
    \/ Choice4
    \/ Choice7

\* peak_load_risk and demand_balancing over daily profiles.
SpecRisk == InitRisk /\ [][NextRisk]_vars

NextZone ==
    \/ Startup
    \/ Choice5

\* zone_efficiency over zone readings.
SpecZone == InitZone /\ [][NextZone]_vars

(***************************************************************************)
(* Properties.  What the last step was, read from the state.               *)
(***************************************************************************)
\* The last prompt was answered with selection k.
Selected(k) == pc # "startup" /\ ParseInt(choice).ok /\ ParseInt(choice).val = k

ValidSelection(text) == ParseInt(text).ok /\ ParseInt(text).val \in 1..8

Printed(text) == \E i \in 1..Len(stdout) : stdout[i].text = text

Recommended ==
    Printed("Shift load to off-peak hours") \/ Printed("Stagger usage during peak hours")

PreconditionReported == Texts(stdout) = <<"Run Peak Load Risk first">>

\* The readings of the file, summed per row, in timestamp order.
CsvTotals ==
    LET s == SortByDateTime(csv)
    IN  [i \in 1..Len(s) |-> s[i].PowerConsumption_Zone1 + s[i].PowerConsumption_Zone2
                                + s[i].PowerConsumption_Zone3]

\* n, the sum and the sum of squares of the frame's Total_Load.
LoadN == Len(df["Total_Load"])

LoadSum == SeqSum(df["Total_Load"])

LoadSumSq == SeqSum([i \in 1..LoadN |-> df["Total_Load"][i] * df["Total_Load"][i]])

\* n * (n - 1) * variance, and n * (x - mean), as integers.
LoadVarN == LoadN * LoadSumSq - LoadSum * LoadSum

LoadDevN(i) == LoadN * df["Total_Load"][i] - LoadSum

\* C1: operation 7 before any completed operation 4 reports the missing
\* precondition and recommends nothing; a demand-balancing report is printed
\* only in a session where operation 4 has completed.
C1_BalancingNeedsRisk ==
    /\ (Selected(7) /\ ~hist.risk_done) =>
            (PreconditionReported /\ ~Recommended /\ ~Printed("Demand Balancing Suggestions:"))
    /\ (Recommended \/ Printed("Demand Balancing Suggestions:")) => hist.risk_done

C1_Witness == Selected(7) /\ ~hist.risk_done /\ PreconditionReported /\ pc = "menu"

\* An operation 1..7 ended in an error: a reported precondition or an exception.
OperationFailed ==
    /\ \E k \in 1..7 : Selected(k)
    /\ (PreconditionReported \/ Printed("Traceback (most recent call last):"))

\* C2: a failed operation leaves the session at the menu with the frame, the
\* cached (mean, std) and the cached high-risk set as they were.
C2_FailureKeepsSession ==
    [][(pc = "menu" /\ OperationFailed') =>
            (/\ pc' = "menu"
             /\ df' = df
             /\ mean_load' = mean_load
             /\ std_load' = std_load
             /\ high_risk_hours' = high_risk_hours)]_vars

\* C3: after startup mean_load and std_load are the mean and the sample standard
\* deviation of the file's total loads, Total_Load is those loads, and every
\* invocation of operation 6 received that pair.
C3_SharedBaseline ==
    pc # "startup" =>
        /\ df["Total_Load"] = CsvTotals
        /\ mean_load = SeriesMean(AsRats(CsvTotals))
        /\ std_load = SeriesStd(AsRats(CsvTotals))
        /\ hist.stat_runs > 0 =>
              /\ hist.stat_last.mean = SeriesMean(AsRats(CsvTotals))
              /\ hist.stat_last.std = SeriesStd(AsRats(CsvTotals))
              /\ hist.stat_first.mean = hist.stat_last.mean
              /\ hist.stat_first.std = hist.stat_last.std

C3_Witness ==
    /\ Selected(6)
    /\ hist.stat_runs = 2
    /\ hist.risk_done
    /\ "Rolling_7" \in DOMAIN df
    /\ ~SurdIsZero(std_load) /\ ~SurdIsNaN(std_load)

\* x[i] > mean + 2 * std over the whole series, in integers:
\* n*(x - mean) > 0 and (n*(x - mean))^2 * (n - 1) > 4 * n * (n*Q - S^2).
AboveTwoSigma(i) ==
    /\ LoadN >= 2
    /\ LoadDevN(i) > 0
    /\ LoadDevN(i) * LoadDevN(i) * (LoadN - 1) > 4 * LoadN * LoadVarN

AtTwoSigma(i) ==
    /\ LoadN >= 2
    /\ LoadDevN(i) > 0
    /\ LoadDevN(i) * LoadDevN(i) * (LoadN - 1) = 4 * LoadN * LoadVarN

\* C4: a row is flagged Wastage_Anomaly exactly when its total load is strictly
\* above mean + 2*std of the whole series, and the count printed at startup is the
\* number of such rows, at most the row count.
C4_WastageStrict ==
    pc # "startup" =>
        /\ \A i \in 1..LoadN : df["Wastage_Anomaly"][i] <=> AboveTwoSigma(i)
        /\ (pc = "menu" /\ choice = <<>>) =>
              /\ Texts(stdout) = <<"Total Wastage Events:">>
              /\ stdout[1].data = Cardinality({i \in 1..LoadN : AboveTwoSigma(i)})
              /\ stdout[1].data <= LoadN

C4_Witness ==
    /\ pc = "menu" /\ choice = <<>>
    /\ stdout[1].data = 1
    /\ \E i \in 1..LoadN : df["Wastage_Anomaly"][i]
    /\ \E i \in 1..LoadN : ~df["Wastage_Anomaly"][i]

C4_TieWitness ==
    /\ pc = "menu" /\ choice = <<>>
    /\ \E i \in 1..LoadN : AtTwoSigma(i) /\ ~df["Wastage_Anomaly"][i]

\* The hours that occur in the frame, and each one's mean load.
HoursPresent == {df["Hour"][i] : i \in 1..LoadN}

HourRows(h) == {i \in 1..LoadN : df["Hour"][i] = h}

HourTotal(h) ==
    LET f[i \in 0..LoadN] ==
            IF i = 0 THEN 0
            ELSE f[i - 1] + (IF df["Hour"][i] = h THEN df["Total_Load"][i] ELSE 0)
    IN  f[LoadN]

HourMean(h) == Rat(HourTotal(h), Cardinality(HourRows(h)))

\* Sums over the hours present, by the computational formula for the variance.
RECURSIVE SumOver(_, _)
SumOver(hs, squared) ==
    IF hs = {} THEN RatInt(0)
    ELSE LET h == CHOOSE x \in hs : TRUE
             v == HourMean(h)
         IN  RatAdd(IF squared THEN RatMul(v, v) ELSE v, SumOver(hs \ {h}, squared))

HourK == Cardinality(HoursPresent)

MeanOfHours == RatDiv(SumOver(HoursPresent, FALSE), RatInt(HourK))

VarOfHours ==
    RatDiv(RatSub(SumOver(HoursPresent, TRUE),
                  RatMul(RatInt(HourK), RatMul(MeanOfHours, MeanOfHours))),
           RatInt(HourK - 1))

\* v > m + sqrt(var): v is strictly above the mean m plus the standard deviation.
AboveByDeviation(v, m, var) ==
    /\ HourK >= 2
    /\ RatGT(v, m)
    /\ RatGT(RatMul(RatSub(v, m), RatSub(v, m)), var)

AtDeviation(v, m, var) ==
    /\ HourK >= 2
    /\ RatGT(v, m)
    /\ RatMul(RatSub(v, m), RatSub(v, m)) = var

\* series lists exactly the hours whose mean is strictly above the mean of the
\* hourly means plus their standard deviation, each with its mean, in ascending
\* order of the hour.
IsHighRiskSeries(series) ==
    LET m == MeanOfHours
        var == VarOfHours
    IN  /\ {series[i].key : i \in 1..Len(series)}
              = {h \in HoursPresent : AboveByDeviation(HourMean(h), m, var)}
        /\ \A i \in 1..Len(series) : series[i].mean = HourMean(series[i].key)
        /\ \A i \in 1..Len(series) - 1 : series[i].key < series[i + 1].key

C5_TieWitness ==
    /\ Selected(4)
    /\ \E h \in HoursPresent : AtDeviation(HourMean(h), MeanOfHours, VarOfHours)

\* Sums and counts of the peak and the off-peak rows.
PeakRows == {i \in 1..LoadN : df["Hour"][i] \in 18..22}

OffPeakRows == (1..LoadN) \ PeakRows

RowsTotal(rows) ==
    LET f[i \in 0..LoadN] ==
            IF i = 0 THEN 0
            ELSE f[i - 1] + (IF i \in rows THEN df["Total_Load"][i] ELSE 0)
    IN  f[LoadN]

\* mean(Peak) > mean(Off-Peak) * 1.15, in integers; False when either is empty.
PeakExceeds ==
    /\ PeakRows # {} /\ OffPeakRows # {}
    /\ 100 * RowsTotal(PeakRows) * Cardinality(OffPeakRows)
          > 115 * RowsTotal(OffPeakRows) * Cardinality(PeakRows)

ManyRiskHours == Cardinality({high_risk_hours.items[i].key :
                                 i \in 1..Len(high_risk_hours.items)}) > 4

\* C6: demand_balancing prints the shift line iff mean(Peak) > 1.15 * mean(Off-Peak)
\* and the stagger line iff there are more than 4 high-risk hours, each rule on
\* its own, the shift line first.
C6_BalancingRules ==
    (Selected(7) /\ ~IsNone(high_risk_hours)) =>
        Texts(stdout) =
            <<"Demand Balancing Suggestions:">>
            \o (IF PeakExceeds THEN <<"Shift load to off-peak hours">> ELSE <<>>)
            \o (IF ManyRiskHours THEN <<"Stagger usage during peak hours">> ELSE <<>>)

C6_Witness ==
    /\ Selected(7) /\ ~IsNone(high_risk_hours)
    /\ Texts(stdout) = <<"Demand Balancing Suggestions:", "Shift load to off-peak hours",
                         "Stagger usage during peak hours">>

C6_StaggerOnly ==
    /\ Selected(7) /\ ~IsNone(high_risk_hours)
    /\ Texts(stdout) = <<"Demand Balancing Suggestions:", "Stagger usage during peak hours">>

C6_ShiftOnly ==
    /\ Selected(7) /\ ~IsNone(high_risk_hours)
    /\ Texts(stdout) = <<"Demand Balancing Suggestions:", "Shift load to off-peak hours">>

C6_Neither ==
    /\ Selected(7) /\ ~IsNone(high_risk_hours)
    /\ Texts(stdout) = <<"Demand Balancing Suggestions:">>

\* C7: operation 6 with a shared std of 0 fails with a division-by-zero error and
\* writes neither z-scores nor anomaly flags.
C7_ZeroStdFails ==
    (Selected(6) /\ SurdIsZero(std_load)) =>
        /\ Printed("Traceback (most recent call last):")
        /\ "Z_Score" \notin DOMAIN df
        /\ "Stat_Anomaly" \notin DOMAIN df

\* abs(z[i]) > 2.5 in integers: 4 * (n*(x - mean))^2 * (n - 1) > 25 * n * (n*Q - S^2),
\* with a positive variance.
AboveZLimit(i) ==
    /\ LoadN >= 2
    /\ LoadVarN > 0
    /\ 4 * LoadDevN(i) * LoadDevN(i) * (LoadN - 1) > 25 * LoadN * LoadVarN

\* C8: every invocation of operation 6 after the first yields the z-scores, the
\* flags and the count of the first, and a row is flagged iff abs(z) > 2.5.
C8_StatIdempotent ==
    /\ hist.stat_runs >= 1 =>
          /\ df["Z_Score"] = hist.stat_first.z
          /\ df["Stat_Anomaly"] = hist.stat_first.flags
          /\ \A i \in 1..LoadN : df["Stat_Anomaly"][i] <=> AboveZLimit(i)
          /\ hist.stat_first.count = Cardinality({i \in 1..LoadN : AboveZLimit(i)})
    /\ hist.stat_runs = 2 =>
          /\ hist.stat_last.z = hist.stat_first.z
          /\ hist.stat_last.flags = hist.stat_first.flags
          /\ hist.stat_last.count = hist.stat_first.count
    /\ Selected(6) => stdout[1].data = hist.stat_first.count

C8_Witness ==
    /\ Selected(6)
    /\ hist.stat_runs = 2
    /\ "Rolling_7" \in DOMAIN df
    /\ hist.stat_last.count = 1
    /\ \E i \in 1..LoadN : df["Stat_Anomaly"][i]

\* The sum of each zone's readings; the ratio of two means is the ratio of the sums.
ZoneSum(z) == SeqSum(df["PowerConsumption_" \o z])

ZoneNames == <<"Zone1", "Zone2", "Zone3">>

MaxZoneSum ==
    CHOOSE m \in {ZoneSum(ZoneNames[i]) : i \in 1..3} :
        \A i \in 1..3 : ZoneSum(ZoneNames[i]) <= m

\* s is a number of hundredths within half a hundredth of 100 - 40 * sum / max.
IsRoundedScore(s, sum) ==
    /\ IsFinite(s)
    /\ 100 % s.den = 0
    /\ 200 * Abs(s.num * MaxZoneSum - s.den * (100 * MaxZoneSum - 40 * sum))
          <= s.den * MaxZoneSum

ScoresPrinted ==
    /\ Selected(5)
    /\ MaxZoneSum > 0

\* C9 as claimed: the largest zone scores 60.00, every other zone strictly more
\* than 60 and at most 100.
C9_OthersAboveSixty ==
    ScoresPrinted =>
        \A i \in 1..3 :
            IF ZoneSum(ZoneNames[i]) = MaxZoneSum
            THEN stdout[i + 1].data = RatInt(60)
            ELSE /\ RatGT(stdout[i + 1].data, RatInt(60))
                 /\ ~RatGT(stdout[i + 1].data, RatInt(100))

\* C9, amended: the scores are printed in the order Zone1, Zone2, Zone3, each is
\* 100 - (zone_mean / max_zone_mean) * 40 rounded to hundredths; the largest zone
\* scores 60.00 and every zone scores at least 60.00 and at most 100.00.
C9_ZoneScores ==
    ScoresPrinted =>
        /\ Texts(stdout) = <<"Zone Efficiency Scores:", "Zone1", "Zone2", "Zone3">>
        /\ \A i \in 1..3 :
              /\ IsRoundedScore(stdout[i + 1].data, ZoneSum(ZoneNames[i]))
              /\ ZoneSum(ZoneNames[i]) = MaxZoneSum => stdout[i + 1].data = RatInt(60)
              /\ ~RatGT(RatInt(60), stdout[i + 1].data)
              /\ ~RatGT(stdout[i + 1].data, RatInt(100))

C9_Witness ==
    /\ ScoresPrinted
    /\ ZoneSum("Zone1") * 80 = ZoneSum("Zone2") * 100
    /\ ZoneSum("Zone1") * 50 = ZoneSum("Zone3") * 100
    /\ stdout[2].data = RatInt(60)
    /\ stdout[3].data = RatInt(68)
    /\ stdout[4].data = RatInt(80)

\* C10: an input that is not one of the 8 selections is reported as invalid and
\* the menu is offered again with the session state unchanged; the loop is left
\* only by selection 8.
C10_InvalidReprompts ==
    [][/\ (pc = "menu" /\ ~ValidSelection(choice')) =>
              /\ Texts(stdout') = <<"Invalid choice. Try again.">>
              /\ pc' = "menu"
              /\ df' = df
              /\ mean_load' = mean_load
              /\ std_load' = std_load
              /\ high_risk_hours' = high_risk_hours
       /\ (pc = "menu" /\ pc' = "exited") => ParseInt(choice').val = 8]_vars
====
